---- MODULE Spec2Model ----
(***************************************************************************)
(* Model of the housing-affordability loaders:                             *)
(*   backend/src/load_acs.py  (_load_single_table, load_acs_affordability) *)
(*   backend/src/load_hud.py  (load_hud_fmr, _expand_to_acs_geos)          *)
(*   backend/src/config.py    (YEARS, TARGET_GEOS)                         *)
(*                                                                         *)
(* Text is modelled as TLA+ strings, character by character (Len, SubSeq   *)
(* and \o act on strings).  A pandas DataFrame is a sequence of row        *)
(* records; NaN/None ("absent") is the value NaN below.  Floats are        *)
(* integers, and a float quotient is an exact fraction, +inf, -inf or NaN. *)
(***************************************************************************)
EXTENDS Integers, Sequences, FiniteSets, TLC

VARIABLES
    tbl,        \* _load_single_table: what _find_table_file / read_csv gave
    ext,        \* _load_single_table: its outcome (records or the exception)
    acs_years,  \* load_acs_affordability: the argument `years`
    acs_i,      \* load_acs_affordability: loop position in `years`
    acs_pc,     \* "loop" | "done" | "raised"
    acs_last,   \* the three extractions of the iteration that ran last
    acs_frames, \* `frames`: one merged frame per finished iteration
    acs_result, \* the returned frame `filtered` (rows), once done
    hud_years,  \* load_hud_fmr: the argument `years`
    hud_i,      \* load_hud_fmr: loop position in `years`
    hud_pc,     \* "loop" | "done" | "raised"
    hud_last,   \* the iteration that ran last: workbook, outcome, records
    hud_frames, \* `frames`: one frame per year that produced records
    hud_result  \* the returned frame `result` (rows), once done

tableVars == <<tbl, ext>>
acsVars == <<acs_years, acs_i, acs_pc, acs_last, acs_frames, acs_result>>
hudVars == <<hud_years, hud_i, hud_pc, hud_last, hud_frames, hud_result>>
vars == <<tbl, ext, acs_years, acs_i, acs_pc, acs_last, acs_frames, acs_result,
          hud_years, hud_i, hud_pc, hud_last, hud_frames, hud_result>>

----------------------------------------------------------------------------
(* Bounds of the model. *)

MaxRows == 2
MaxPairs == 2
MaxYears == 2
MaxHudRows == 2

----------------------------------------------------------------------------
(* Python str operations, character by character. *)

\* k in s
Contains(s, k) ==
    \E i \in 1..(Len(s) - Len(k) + 1) : SubSeq(s, i, i + Len(k) - 1) = k

\* s.endswith(k)
EndsWith(s, k) ==
    /\ Len(s) >= Len(k)
    /\ SubSeq(s, Len(s) - Len(k) + 1, Len(s)) = k

LowerCh(c) ==
    CASE c = "A" -> "a" [] c = "B" -> "b" [] c = "C" -> "c" [] c = "D" -> "d"
      [] c = "E" -> "e" [] c = "F" -> "f" [] c = "G" -> "g" [] c = "H" -> "h"
      [] c = "I" -> "i" [] c = "J" -> "j" [] c = "K" -> "k" [] c = "L" -> "l"
      [] c = "M" -> "m" [] c = "N" -> "n" [] c = "O" -> "o" [] c = "P" -> "p"
      [] c = "Q" -> "q" [] c = "R" -> "r" [] c = "S" -> "s" [] c = "T" -> "t"
      [] c = "U" -> "u" [] c = "V" -> "v" [] c = "W" -> "w" [] c = "X" -> "x"
      [] c = "Y" -> "y" [] c = "Z" -> "z" [] OTHER -> c

\* s.lower()
RECURSIVE Lower(_)
Lower(s) ==
    IF s = "" THEN ""
    ELSE LowerCh(SubSeq(s, 1, 1)) \o Lower(SubSeq(s, 2, Len(s)))

\* s.replace(",", "")
RECURSIVE RemoveCommas(_)
RemoveCommas(s) ==
    IF s = "" THEN ""
    ELSE (IF SubSeq(s, 1, 1) = "," THEN "" ELSE SubSeq(s, 1, 1))
            \o RemoveCommas(SubSeq(s, 2, Len(s)))

\* s.strip(): whitespace removed at both ends
RECURSIVE Strip(_)
Strip(s) ==
    IF s = "" THEN ""
    ELSE IF SubSeq(s, 1, 1) = " " THEN Strip(SubSeq(s, 2, Len(s)))
    ELSE IF SubSeq(s, Len(s), Len(s)) = " " THEN Strip(SubSeq(s, 1, Len(s) - 1))
    ELSE s

\* s.split(sep)[0]: the text before the first occurrence of sep, or all of s
SplitFirst(s, sep) ==
    IF Contains(s, sep)
    THEN LET i == CHOOSE j \in 1..(Len(s) - Len(sep) + 1) :
                    /\ SubSeq(s, j, j + Len(sep) - 1) = sep
                    /\ \A h \in 1..(j - 1) : SubSeq(s, h, h + Len(sep) - 1) /= sep
         IN SubSeq(s, 1, i - 1)
    ELSE s

DigitVal(c) ==
    CASE c = "0" -> 0 [] c = "1" -> 1 [] c = "2" -> 2 [] c = "3" -> 3
      [] c = "4" -> 4 [] c = "5" -> 5 [] c = "6" -> 6 [] c = "7" -> 7
      [] c = "8" -> 8 [] c = "9" -> 9 [] OTHER -> -1

AllDigits(s) ==
    /\ s /= ""
    /\ \A i \in 1..Len(s) : DigitVal(SubSeq(s, i, i)) >= 0

RECURSIVE DigitsValue(_)
DigitsValue(s) ==
    IF s = "" THEN 0
    ELSE 10 * DigitsValue(SubSeq(s, 1, Len(s) - 1)) + DigitVal(SubSeq(s, Len(s), Len(s)))

RECURSIVE DigitsOf(_)
DigitsOf(n) ==
    IF n < 10
    THEN SubSeq("0123456789", n + 1, n + 1)
    ELSE DigitsOf(n \div 10) \o SubSeq("0123456789", (n % 10) + 1, (n % 10) + 1)

\* str(raw) of a numpy integer read by read_csv
StrOfInt(n) == IF n < 0 THEN "-" \o DigitsOf(0 - n) ELSE DigitsOf(n)

----------------------------------------------------------------------------
(* Values.  A float column holds a number or NaN (pandas' absent). *)

NaN == [isna |-> TRUE, v |-> 0]
Num(n) == [isna |-> FALSE, v |-> n]

\* Raw cells of a table read by read_csv: a missing cell (NaN), text, or an
\* integer that read_csv parsed itself.
NullCell == [kind |-> "nan", s |-> "", n |-> 0]
StrCell(s) == [kind |-> "str", s |-> s, n |-> 0]
IntCell(n) == [kind |-> "int", s |-> "", n |-> n]

\* float(text), for text made of a sign and digits: [ok, v].  Python's float
\* strips surrounding whitespace itself and takes one leading sign; any
\* other text over the cells' characters (digits, sign, +, blank, letters)
\* raises ValueError (ok = FALSE).
PyFloat(text) ==
    LET t == Strip(text)
        signed == t /= "" /\ SubSeq(t, 1, 1) \in {"+", "-"}
        body == IF signed THEN SubSeq(t, 2, Len(t)) ELSE t
    IN IF AllDigits(body)
       THEN [ok |-> TRUE,
             v |-> IF signed /\ SubSeq(t, 1, 1) = "-"
                   THEN 0 - DigitsValue(body) ELSE DigitsValue(body)]
       ELSE [ok |-> FALSE, v |-> 0]

----------------------------------------------------------------------------
(* load_acs.py: _find_table_file and _load_single_table.                   *)
(* A file is [found, cols, rows]: found is what _find_table_file meets     *)
(* ("nodir", "nofile", "ok"), cols the column names read_csv gave, rows    *)
(* the data rows, each a sequence of raw cells aligned with cols.          *)

LabelCol == "Label (Grouping)"
EstimateMarker == "!!Estimate"
Separator == "!!"

\* _find_table_file: raises FileNotFoundError without the directory or a match
_find_table_file(file) ==
    IF file.found = "ok" THEN "none" ELSE "FileNotFoundError"

ColIndex(cols, name) == CHOOSE i \in 1..Len(cols) : cols[i] = name
HasCol(cols, name) == \E i \in 1..Len(cols) : cols[i] = name

\* Series.astype(str) on one cell
AsTypeStr(cell) ==
    CASE cell.kind = "nan" -> "nan"
      [] cell.kind = "int" -> StrOfInt(cell.n)
      [] OTHER -> cell.s

\* .str.contains("Median", case=False, na=False) on one label
LabelMatches(cell) == Contains(Lower(AsTypeStr(cell)), Lower("Median"))

\* median_rows = df[...]: the positions of the matching rows, in table order
median_rows(file) ==
    LET li == ColIndex(file.cols, LabelCol)
    IN SelectSeq([i \in 1..Len(file.rows) |-> i],
                 LAMBDA i : LabelMatches(file.rows[i][li]))

\* median_row taking median_rows.iloc[[-1]], the last match
median_row_last(file) ==
    IF median_rows(file) = <<>>
    THEN IF Len(file.rows) = 0
         THEN [raised |-> "IndexError", row |-> 0]
         ELSE [raised |-> "none", row |-> 1]
    ELSE [raised |-> "none", row |-> median_rows(file)[Len(median_rows(file))]]

\* lines 81-86: the chosen row; df.iloc[[0]] raises IndexError on no rows
median_row(file) ==
    LET hits == median_rows(file)
    IN IF hits = <<>>
       THEN IF Len(file.rows) = 0
            THEN [raised |-> "IndexError", row |-> 0]
            ELSE [raised |-> "none", row |-> 1]
       ELSE [raised |-> "none", row |-> Head(hits)]

\* line 89: the columns whose name ends with the marker, in column order
estimate_cols(cols) ==
    SelectSeq([i \in 1..Len(cols) |-> i],
              LAMBDA i : EndsWith(cols[i], EstimateMarker))

\* line 98
GeoNameOf(col) == SplitFirst(col, Separator)

\* lines 99-108: one cell to a value; float() may raise ValueError
CellValue(raw) ==
    IF raw.kind = "nan"
    THEN [raised |-> "none", value |-> NaN]
    ELSE LET cleaned == IF raw.kind = "str"
                        THEN Strip(RemoveCommas(raw.s))
                        ELSE StrOfInt(raw.n)
         IN IF cleaned = ""
            THEN [raised |-> "none", value |-> NaN]
            ELSE IF PyFloat(cleaned).ok
                 THEN [raised |-> "none", value |-> Num(PyFloat(cleaned).v)]
                 ELSE [raised |-> "ValueError", value |-> NaN]

\* lines 96-109: the loop over estimate_cols; an exception ends it and the
\* records built so far are lost with the frame that was never returned
RECURSIVE BuildRecords(_, _, _, _)
BuildRecords(year, file, row, ecols) ==
    IF ecols = <<>>
    THEN [raised |-> "none", records |-> <<>>]
    ELSE LET col == file.cols[Head(ecols)]
             cv == CellValue(file.rows[row][Head(ecols)])
             rest == BuildRecords(year, file, row, Tail(ecols))
         IN IF cv.raised /= "none"
            THEN [raised |-> cv.raised, records |-> <<>>]
            ELSE IF rest.raised /= "none"
                 THEN rest
                 ELSE [raised |-> "none",
                       records |-> <<[year |-> year,
                                      geo_name |-> GeoNameOf(col),
                                      value |-> cv.value]>> \o rest.records]

\* _load_single_table(year, table_id), on the file the year directory holds:
\* [raised, row, records]; row is the position of the chosen row (0: none)
_load_single_table(year, file) ==
    IF _find_table_file(file) /= "none"
    THEN [raised |-> _find_table_file(file), row |-> 0, records |-> <<>>]
    ELSE IF ~HasCol(file.cols, LabelCol)
    THEN [raised |-> "KeyError", row |-> 0, records |-> <<>>]
    ELSE LET chosen == median_row(file)
             ecols == estimate_cols(file.cols)
         IN IF chosen.raised /= "none"
            THEN [raised |-> chosen.raised, row |-> 0, records |-> <<>>]
            ELSE IF ecols = <<>>
            THEN [raised |-> "KeyError", row |-> chosen.row, records |-> <<>>]
            ELSE LET b == BuildRecords(year, file, chosen.row, ecols)
                 IN [raised |-> b.raised, row |-> chosen.row, records |-> b.records]

----------------------------------------------------------------------------
(* Input space of _load_single_table. *)

FirstYear == 2013

GeoPool == <<"Hennepin County, Minnesota", "Minnesota!!Total", "Fergus Falls city, Minnesota">>

\* The geography lists of a table: GeoPool with some entries left out, in
\* pool order, at most MaxPairs of them.
RECURSIVE SubSeqs(_)
SubSeqs(s) ==
    IF s = <<>> THEN {<<>>}
    ELSE LET r == SubSeqs(Tail(s))
         IN r \cup {<<Head(s)>> \o t : t \in r}

GeoLists == {g \in SubSeqs(GeoPool) : Len(g) <= MaxPairs}

RECURSIVE PairCols(_)
PairCols(geos) ==
    IF geos = <<>> THEN <<>>
    ELSE <<Head(geos) \o "!!Estimate", Head(geos) \o "!!Margin of Error">>
            \o PairCols(Tail(geos))

Labels == {StrCell("Median household income (dollars)"), StrCell("Total:"),
           StrCell("MEDIAN GROSS RENT"), NullCell}

Cells == {NullCell, StrCell("96,339"), StrCell("  "), StrCell("2,000,000+"),
          StrCell(" 1,000 "), IntCell(50000)}

MoECell == StrCell("+/-1,234")

\* One row: its label, then for each pair the estimate and the margin.
RECURSIVE PairCells(_)
PairCells(cs) ==
    IF cs = <<>> THEN <<>>
    ELSE <<Head(cs), MoECell>> \o PairCells(Tail(cs))

\* Rows: k labels; the cells of row f range over Cells, the other rows hold
\* their own position as text.
RowsOf(labels, f, cs) ==
    [i \in 1..Len(labels) |->
        <<labels[i]>> \o PairCells(IF i = f THEN cs
                                   ELSE [j \in 1..Len(cs) |-> StrCell(StrOfInt(i))])]

SeqsUpTo(S, n) == UNION {[1..k -> S] : k \in 0..n}

LabelledTables ==
    {[found |-> "ok", cols |-> <<LabelCol>> \o PairCols(g), rows |-> RowsOf(ls, f, cs)] :
        <<g, ls, f, cs>> \in
            {q \in GeoLists \X SeqsUpTo(Labels, MaxRows) \X (1..MaxRows) \X SeqsUpTo(Cells, MaxPairs) :
                /\ Len(q[4]) = Len(q[1])
                /\ q[3] <= Len(q[2]) \/ (q[3] = 1 /\ q[2] = <<>>)}}

OtherFiles ==
    {[found |-> "nodir", cols |-> <<>>, rows |-> <<>>],
     [found |-> "nofile", cols |-> <<>>, rows |-> <<>>],
     [found |-> "ok", cols |-> <<"Hennepin County, Minnesota!!Estimate">>,
      rows |-> <<<<StrCell("96,339")>>>>]}

TableFiles == LabelledTables \cup OtherFiles

----------------------------------------------------------------------------
(* _load_single_table as a one-step machine: a file is read and extracted. *)

NoFile == [found |-> "nofile", cols |-> <<>>, rows |-> <<>>]
NoExtract == [raised |-> "notrun", row |-> 0, records |-> <<>>]

InitTable ==
    /\ tbl = NoFile
    /\ ext = NoExtract

ExtractTable ==
    /\ ext.raised = "notrun"
    /\ \E file \in TableFiles :
        /\ tbl' = file
        /\ ext' = _load_single_table(FirstYear, file)

----------------------------------------------------------------------------
(* config.py *)

\* TARGET_GEOS.values()
TARGET_GEOS ==
    {"Fergus Falls city, Minnesota", "Otter Tail County, Minnesota",
     "Minneapolis city, Minnesota", "Hennepin County, Minnesota"}

----------------------------------------------------------------------------
(* load_acs.py: load_acs_affordability.                                    *)

\* pd.concat(frames, ignore_index=True)
RECURSIVE Concat(_)
Concat(frames) ==
    IF frames = <<>> THEN <<>> ELSE Head(frames) \o Concat(Tail(frames))

\* MergeInner with how="left": a left row without a match is kept, with an
\* absent right value
MergeLeft(left, right) ==
    Concat([k \in 1..Len(left) |->
        LET hits == SelectSeq(right, LAMBDA r : /\ r.geo_name = left[k].geo_name
                                                /\ r.year = left[k].year)
        IN IF hits = <<>>
           THEN <<<<left[k], [year |-> left[k].year, geo_name |-> left[k].geo_name,
                              value |-> NaN]>>>>
           ELSE [h \in 1..Len(hits) |-> <<left[k], hits[h]>>]])

\* DataFrame.merge(right, on=["geo_name", "year"], how="inner"): the pairs
\* of a left row and a right row with equal keys, in the order of the left
\* rows, and for one left row in the order of the right rows.
MergeInner(left, right) ==
    Concat([k \in 1..Len(left) |->
        LET hits == SelectSeq(right, LAMBDA r : /\ r.geo_name = left[k].geo_name
                                                /\ r.year = left[k].year)
        IN [h \in 1..Len(hits) |-> <<left[k], hits[h]>>]])

\* lines 141-142: income.merge(home_value).merge(rent); each table brings
\* its value under the column named by its table id
MergeYear(income, home_value, rent) ==
    LET m1 == MergeInner(income, home_value)
        merged1 == [k \in 1..Len(m1) |->
                      [year |-> m1[k][1].year, geo_name |-> m1[k][1].geo_name,
                       B19013 |-> m1[k][1].value, B25077 |-> m1[k][2].value]]
        m2 == MergeInner(merged1, rent)
    IN [k \in 1..Len(m2) |->
          [year |-> m2[k][1].year, geo_name |-> m2[k][1].geo_name,
           B19013 |-> m2[k][1].B19013, B25077 |-> m2[k][1].B25077,
           B25064 |-> m2[k][2].value]]

\* FilterTargets matching on the place name before the comma only
FilterTargetsByPlace(rows) ==
    SelectSeq(rows, LAMBDA r :
        \E t \in TARGET_GEOS : SplitFirst(r.geo_name, ",") = SplitFirst(t, ","))

\* line 150: all_years[all_years["geo_name"].isin(target_names)]
FilterTargets(rows) == SelectSeq(rows, LAMBDA r : r.geo_name \in TARGET_GEOS)

\* Float division of two columns, element by element, as numpy does it under
\* pandas: NaN propagates, x/0 is +inf or -inf, 0/0 is NaN.  A finite
\* quotient is kept as the exact fraction n/d.
QNaN == [kind |-> "nan", n |-> 0, d |-> 1]
FloatDiv(a, b) ==
    IF a.isna \/ b.isna THEN QNaN
    ELSE IF b.v = 0
         THEN IF a.v = 0 THEN QNaN
              ELSE IF a.v > 0 THEN [kind |-> "inf", n |-> 0, d |-> 1]
              ELSE [kind |-> "-inf", n |-> 0, d |-> 1]
         ELSE [kind |-> "num", n |-> a.v, d |-> b.v]

FloatMul(a, k) == IF a.isna THEN NaN ELSE Num(a.v * k)

\* lines 153-168: rename the columns and compute the two ratios
WithRatios(rows) ==
    [k \in 1..Len(rows) |->
        [year |-> rows[k].year, geo_name |-> rows[k].geo_name,
         median_household_income |-> rows[k].B19013,
         median_home_value |-> rows[k].B25077,
         median_gross_rent |-> rows[k].B25064,
         price_to_income |-> FloatDiv(rows[k].B25077, rows[k].B19013),
         rent_to_income |-> FloatDiv(FloatMul(rows[k].B25064, 12), rows[k].B19013)]]

----------------------------------------------------------------------------
(* Input space of load_acs_affordability: the argument and, per year, the  *)
(* three files of the year directory.  Each (year, table) file is read at   *)
(* most once because the years of a list are distinct, so the files are     *)
(* drawn when the loop reads them.                                          *)

ModelYears == FirstYear..(FirstYear + MaxYears - 1)

YearLists ==
    {ys \in SeqsUpTo(ModelYears, MaxYears) :
        \A i, j \in 1..Len(ys) : i /= j => ys[i] /= ys[j]}

Listed == "Hennepin County, Minnesota"
Unlisted == "Hennepin County, MN"

\* A one-row table: the geographies and the cell of each.
MedianFile(geos, cells) ==
    [found |-> "ok", cols |-> <<LabelCol>> \o PairCols(geos),
     rows |-> <<<<StrCell("Median (dollars)")>> \o PairCells(cells)>>]

FilesWith(listedCells, unlistedCell) ==
    {MedianFile(<<Listed>>, <<c>>) : c \in listedCells}
        \cup {MedianFile(<<Unlisted>>, <<unlistedCell>>)}
        \cup {MedianFile(<<Listed, Unlisted>>, <<c, unlistedCell>>) : c \in listedCells}

IncomeFiles ==
    FilesWith({StrCell("50,000"), StrCell("0"), NullCell}, StrCell("60,000"))
        \cup {NoFile}
HomeFiles ==
    FilesWith({StrCell("200,000"), NullCell, StrCell("2,000,000+")}, IntCell(250000))
RentFiles ==
    FilesWith({StrCell("1,000"), StrCell("  ")}, StrCell("1,200"))

\* What _load_single_table(year, table_id) can return for each table id,
\* over the files above.
IncomeLoads == [y \in ModelYears |-> {_load_single_table(y, f) : f \in IncomeFiles}]
HomeLoads == [y \in ModelYears |-> {_load_single_table(y, f) : f \in HomeFiles}]
RentLoads == [y \in ModelYears |-> {_load_single_table(y, f) : f \in RentFiles}]

IdleAcs ==
    /\ acs_years = <<>>
    /\ acs_i = 1
    /\ acs_pc = "idle"
    /\ acs_last = [income |-> NoExtract, home_value |-> NoExtract, rent |-> NoExtract]
    /\ acs_frames = <<>>
    /\ acs_result = <<>>

\* Lines 131-134.  years=None stands for the list YEARS of config.py, which
\* the call then walks like any other list.
InitAcs ==
    /\ acs_years \in YearLists
    /\ acs_i = 1
    /\ acs_pc = "loop"
    /\ acs_last = [income |-> NoExtract, home_value |-> NoExtract, rent |-> NoExtract]
    /\ acs_frames = <<>>
    /\ acs_result = <<>>

\* One iteration of the loop of lines 136-144.  The tables are loaded in
\* order; an exception of one leaves the later ones unread and ends the call.
AcsLoadYear ==
    /\ acs_pc = "loop"
    /\ acs_i <= Len(acs_years)
    /\ \E xi \in IncomeLoads[acs_years[acs_i]], xh \in HomeLoads[acs_years[acs_i]],
          xr \in RentLoads[acs_years[acs_i]] :
        LET income == xi
            home_value == IF income.raised = "none" THEN xh ELSE NoExtract
            rent == IF home_value.raised = "none" THEN xr ELSE NoExtract
            ok == rent.raised = "none"
        IN /\ acs_last' = [income |-> income, home_value |-> home_value, rent |-> rent]
           /\ acs_pc' = IF ok THEN "loop" ELSE "raised"
           /\ acs_frames' = IF ok
                            THEN Append(acs_frames,
                                        MergeYear(income.records, home_value.records, rent.records))
                            ELSE acs_frames
           /\ acs_i' = IF ok THEN acs_i + 1 ELSE acs_i
    /\ UNCHANGED <<acs_years, acs_result>>

\* Lines 146-170, after the loop.  pd.concat raises ValueError on no frames.
AcsFinish ==
    /\ acs_pc = "loop"
    /\ acs_i > Len(acs_years)
    /\ acs_pc' = IF acs_frames = <<>> THEN "raised" ELSE "done"
    /\ acs_result' = IF acs_frames = <<>> THEN <<>>
                     ELSE WithRatios(FilterTargets(Concat(acs_frames)))
    /\ UNCHANGED <<acs_years, acs_i, acs_last, acs_frames>>

----------------------------------------------------------------------------
(* load_hud.py: load_hud_fmr.                                              *)
(* A workbook is [status, cols, rows]: status is what the loop meets for    *)
(* the year ("unconfigured": no entry in HUD_FMR_FILES, "notfound": the     *)
(* path does not exist, "unreadable": read_excel raises, "ok"), cols the    *)
(* column names, rows the data rows, each a sequence of raw cells.          *)

LastYear == 2023

\* HUD_FMR_FILES.keys()
HUD_FMR_YEARS == FirstYear..LastYear

CountyCol == "countyname"
FmrKeywords == <<"2br", "2 br", "fmr2", "fmr_2">>

\* line 90
geo_col_candidates(cols) ==
    SelectSeq(cols, LAMBDA c : Contains(Lower(c), "name") \/ Contains(Lower(c), "area"))

\* lines 96-100
fmr_col_candidates(cols) ==
    SelectSeq(cols, LAMBDA c : \E k \in 1..Len(FmrKeywords) : Contains(Lower(c), FmrKeywords[k]))

\* SelectHudColumns without the exact-name branch of lines 85-87
SelectHudColumnsHeuristicOnly(cols) ==
    IF geo_col_candidates(cols) = <<>>
    THEN [skip |-> "nogeo", geo_col |-> "", fmr_col |-> ""]
    ELSE IF fmr_col_candidates(cols) = <<>>
    THEN [skip |-> "nofmr", geo_col |-> Head(geo_col_candidates(cols)), fmr_col |-> ""]
    ELSE [skip |-> "none", geo_col |-> Head(geo_col_candidates(cols)),
          fmr_col |-> Head(fmr_col_candidates(cols))]

\* lines 84-104: [skip, geo_col, fmr_col]; skip is "none" or why the year is
\* skipped
SelectHudColumns(cols) ==
    IF HasCol(cols, "areaname") /\ HasCol(cols, "fmr_2")
    THEN [skip |-> "none", geo_col |-> "areaname", fmr_col |-> "fmr_2"]
    ELSE IF geo_col_candidates(cols) = <<>>
    THEN [skip |-> "nogeo", geo_col |-> "", fmr_col |-> ""]
    ELSE IF fmr_col_candidates(cols) = <<>>
    THEN [skip |-> "nofmr", geo_col |-> Head(geo_col_candidates(cols)), fmr_col |-> ""]
    ELSE [skip |-> "none", geo_col |-> Head(geo_col_candidates(cols)),
          fmr_col |-> Head(fmr_col_candidates(cols))]

\* str(cell)
StrOfCell(cell) == AsTypeStr(cell)

\* str(row.get("countyname", "")) on a row of sub.  sub is
\* df[[geo_col, fmr_col, "countyname"]]: when geo_col is "countyname" itself
\* the label is there twice, row.get returns a two-element Series and str
\* gives its repr.
CountyText(geo_col, cell, index) ==
    IF geo_col = CountyCol
    THEN "countyname    " \o StrOfCell(cell) \o "\ncountyname    " \o StrOfCell(cell)
            \o "\nName: " \o StrOfInt(index) \o ", dtype: object"
    ELSE StrOfCell(cell)

OtterTailGeos == <<"Otter Tail County, Minnesota", "Fergus Falls city, Minnesota">>
HennepinGeos == <<"Hennepin County, Minnesota", "Minneapolis city, Minnesota">>

\* _expand_to_acs_geos without the .lower() of lines 124 and 136
_expand_to_acs_geos_case_sensitive(countyname, year, fmr) ==
    (IF Contains(countyname, "otter tail")
     THEN [k \in 1..Len(OtterTailGeos) |->
            [year |-> year, hud_fmr_2br |-> fmr, geo_name |-> OtterTailGeos[k]]]
     ELSE <<>>)
    \o
    (IF Contains(countyname, "hennepin")
     THEN [k \in 1..Len(HennepinGeos) |->
            [year |-> year, hud_fmr_2br |-> fmr, geo_name |-> HennepinGeos[k]]]
     ELSE <<>>)

\* lines 113-145: _expand_to_acs_geos on one row of sub
_expand_to_acs_geos(countyname, year, fmr) ==
    (IF Contains(Lower(countyname), "otter tail")
     THEN [k \in 1..Len(OtterTailGeos) |->
            [year |-> year, hud_fmr_2br |-> fmr, geo_name |-> OtterTailGeos[k]]]
     ELSE <<>>)
    \o
    (IF Contains(Lower(countyname), "hennepin")
     THEN [k \in 1..Len(HennepinGeos) |->
            [year |-> year, hud_fmr_2br |-> fmr, geo_name |-> HennepinGeos[k]]]
     ELSE <<>>)

\* lines 147-149: expanded_records over sub.iterrows()
expanded_records(year, wb, geo_col, fmr_col) ==
    Concat([r \in 1..Len(wb.rows) |->
        _expand_to_acs_geos(
            CountyText(geo_col, wb.rows[r][ColIndex(wb.cols, CountyCol)], r - 1),
            year,
            wb.rows[r][ColIndex(wb.cols, fmr_col)])])

\* One iteration of the loop of lines 65-155 on the year's workbook:
\* [outcome, geo_col, fmr_col, records].  outcome "ok": a frame is appended;
\* "KeyError": line 106 raises; anything else: the year is skipped.
\* (No workbook of the model has one column that is both the geography and
\* the FMR candidate, so hud_fmr_2br is always a single cell of the row.)
HudYear(year, wb) ==
    LET skipped(why) == [outcome |-> why, geo_col |-> "", fmr_col |-> "", records |-> <<>>]
        sel == SelectHudColumns(wb.cols)
    IN IF year \notin HUD_FMR_YEARS THEN skipped("unconfigured")
       ELSE IF wb.status = "notfound" THEN skipped("notfound")
       ELSE IF wb.status = "unreadable" THEN skipped("unreadable")
       ELSE IF sel.skip /= "none" THEN skipped(sel.skip)
       ELSE IF ~HasCol(wb.cols, CountyCol)
       THEN [outcome |-> "KeyError", geo_col |-> sel.geo_col, fmr_col |-> sel.fmr_col,
             records |-> <<>>]
       ELSE LET recs == expanded_records(year, wb, sel.geo_col, sel.fmr_col)
            IN [outcome |-> IF recs = <<>> THEN "empty" ELSE "ok",
                geo_col |-> sel.geo_col, fmr_col |-> sel.fmr_col, records |-> recs]

----------------------------------------------------------------------------
(* Input space of load_hud_fmr. *)

HudLayouts ==
    {<<"fips2010", "fmr_2", "countyname", "areaname">>,
     <<"Areaname", "Rent50_2", "FMR2", "fmr_2", "countyname">>,
     <<"countyname", "hud_area_name", "fmr_2">>,
     <<"areaname", "fmr_2">>,
     <<"fips2010", "fmr2">>,
     <<"areaname", "rent50_2", "countyname">>,
     <<"hud_area_name", "FMR_2BR", "areaname", "fmr_2", "countyname">>}

CountyCells ==
    {StrCell("Otter Tail County"), StrCell("Hennepin County"), StrCell("Ramsey County"),
     StrCell("HENNEPIN/OTTER TAIL"), NullCell}

\* Row r of a workbook: the county cell under countyname, text under the
\* other name columns, and a number of its own in every other column.
HudRow(cols, county, r) ==
    [i \in 1..Len(cols) |->
        IF cols[i] = CountyCol THEN county
        ELSE IF Contains(Lower(cols[i]), "name") THEN StrCell("Some HUD Metro FMR Area")
        ELSE IntCell(1000 * r + i)]

Workbook(cols, counties) ==
    [status |-> "ok", cols |-> cols,
     rows |-> [r \in 1..Len(counties) |-> HudRow(cols, counties[r], r)]]

NoWorkbook(status) == [status |-> status, cols |-> <<>>, rows |-> <<>>]

\* Every workbook of the model: for the one-year runs
HudWorkbooks ==
    {Workbook(cols, cs) : cols \in HudLayouts, cs \in SeqsUpTo(CountyCells, MaxHudRows)}
        \cup {NoWorkbook("notfound"), NoWorkbook("unreadable")}

\* A smaller family for the runs over several years
HudWorkbooksFew ==
    {Workbook(<<"fips2010", "fmr_2", "countyname", "areaname">>, cs) :
        cs \in SeqsUpTo({StrCell("Hennepin County"), StrCell("Ramsey County")}, MaxHudRows)}
        \cup {Workbook(<<"areaname", "fmr_2">>, <<StrCell("Hennepin County")>>),
              Workbook(<<"fips2010", "fmr2">>, <<StrCell("Hennepin County")>>),
              NoWorkbook("notfound"), NoWorkbook("unreadable")}

\* The years a list may name: the first configured ones and the one before
HudModelYears == (FirstYear - 1)..(FirstYear + MaxYears - 1)

HudYearLists ==
    {ys \in SeqsUpTo(HudModelYears, MaxYears) :
        \A i, j \in 1..Len(ys) : i < j => ys[i] < ys[j]}

NoHudYear == [year |-> 0, wb |-> NoWorkbook("notrun"),
              out |-> [outcome |-> "notrun", geo_col |-> "", fmr_col |-> "", records |-> <<>>]]

IdleHud ==
    /\ hud_years = <<>>
    /\ hud_i = 1
    /\ hud_pc = "idle"
    /\ hud_last = NoHudYear
    /\ hud_frames = <<>>
    /\ hud_result = <<>>

\* Lines 60-63.  years=None stands for sorted(HUD_FMR_FILES.keys()), walked
\* like any other list.
InitHud(lists) ==
    /\ hud_years \in lists
    /\ hud_i = 1
    /\ hud_pc = "loop"
    /\ hud_last = NoHudYear
    /\ hud_frames = <<>>
    /\ hud_result = <<>>

\* One iteration of the loop of lines 65-155, on a workbook of `books`.  A
\* year without a configured path has no workbook to read.
HudLoadYear(books) ==
    /\ hud_pc = "loop"
    /\ hud_i <= Len(hud_years)
    /\ \E wb \in books :
        LET year == hud_years[hud_i]
            out == HudYear(year, wb)
        IN /\ year \notin HUD_FMR_YEARS => wb = NoWorkbook("notfound")
           /\ hud_last' = [year |-> year, wb |-> wb, out |-> out]
           /\ hud_pc' = IF out.outcome = "KeyError" THEN "raised" ELSE "loop"
           /\ hud_frames' = IF out.outcome = "ok"
                            THEN Append(hud_frames, out.records) ELSE hud_frames
           /\ hud_i' = IF out.outcome = "KeyError" THEN hud_i ELSE hud_i + 1
    /\ UNCHANGED <<hud_years, hud_result>>

\* Lines 157-161, after the loop
HudFinish ==
    /\ hud_pc = "loop"
    /\ hud_i > Len(hud_years)
    /\ hud_pc' = "done"
    /\ hud_result' = Concat(hud_frames)
    /\ UNCHANGED <<hud_years, hud_i, hud_last, hud_frames>>

IdleTable ==
    /\ tbl = NoFile
    /\ ext = [raised |-> "idle", row |-> 0, records |-> <<>>]

----------------------------------------------------------------------------
(* The specifications. *)

\* _load_single_table alone, over TableFiles
NextTable == ExtractTable /\ UNCHANGED <<acsVars, hudVars>>
InitT == InitTable /\ IdleAcs /\ IdleHud
SpecTable == InitT /\ [][NextTable]_vars

\* load_acs_affordability
Init == IdleTable /\ InitAcs /\ IdleHud
Next ==
    \/ AcsLoadYear /\ UNCHANGED <<tableVars, hudVars>>
    \/ AcsFinish /\ UNCHANGED <<tableVars, hudVars>>
Spec == Init /\ [][Next]_vars

\* load_hud_fmr on one year, over HudWorkbooks
InitHudYear == IdleTable /\ IdleAcs /\ InitHud({ys \in HudYearLists : Len(ys) <= 1})
NextHudYear ==
    \/ HudLoadYear(HudWorkbooks) /\ UNCHANGED <<tableVars, acsVars>>
    \/ HudFinish /\ UNCHANGED <<tableVars, acsVars>>
SpecHudYear == InitHudYear /\ [][NextHudYear]_vars

\* load_hud_fmr on a list of years, over HudWorkbooksFew
InitHudLoop == IdleTable /\ IdleAcs /\ InitHud(HudYearLists)
NextHud ==
    \/ HudLoadYear(HudWorkbooksFew) /\ UNCHANGED <<tableVars, acsVars>>
    \/ HudFinish /\ UNCHANGED <<tableVars, acsVars>>
SpecHud == InitHudLoop /\ [][NextHud]_vars

----------------------------------------------------------------------------
(* Properties of _load_single_table (SpecTable). *)

\* The extraction ran on a file that was found and has the label column.
Extracted == ext.raised \notin {"notrun", "idle"}
HasLabelCol == tbl.found = "ok" /\ HasCol(tbl.cols, LabelCol)

\* A label containing "Median", whatever the case
IsMedianLabel(cell) ==
    cell.kind = "str" /\ Contains(Lower(cell.s), "median")

\* The row the extractor is to read: the first with a Median label, else the
\* first row
ExpectedRow ==
    LET li == ColIndex(tbl.cols, LabelCol)
        hits == {i \in 1..Len(tbl.rows) : IsMedianLabel(tbl.rows[i][li])}
    IN IF hits = {} THEN 1 ELSE CHOOSE i \in hits : \A j \in hits : i <= j

\* The columns whose name ends with "!!Estimate", in column order
ExpectedEstimateCols ==
    SelectSeq([i \in 1..Len(tbl.cols) |-> i],
              LAMBDA i : EndsWith(tbl.cols[i], "!!Estimate"))

\* What a cell is to yield: the number it spells once commas and surrounding
\* blanks are removed, absent for a null cell, an empty cell and a cell that
\* spells no number
ExpectedValue(cell) ==
    IF cell.kind = "nan" THEN NaN
    ELSE IF cell.kind = "int" THEN Num(cell.n)
    ELSE IF PyFloat(RemoveCommas(cell.s)).ok
         THEN Num(PyFloat(RemoveCommas(cell.s)).v)
         ELSE NaN

\* C2: every selected Estimate column yields a record; a cell of the chosen
\* row that spells no number yields an absent value and the extraction never
\* raises for it; a null or blank cell yields absent and "96,339" yields 96339.
C2_UnparsableCellYieldsAbsent ==
    (Extracted /\ HasLabelCol /\ tbl.rows /= <<>> /\ ExpectedEstimateCols /= <<>>) =>
        /\ ext.raised = "none"
        /\ Len(ext.records) = Len(ExpectedEstimateCols)
        /\ \A k \in 1..Len(ext.records) :
            ext.records[k].value = ExpectedValue(tbl.rows[ext.row][ExpectedEstimateCols[k]])

\* The table is a label column followed by N >= 1 pairs "<Geo>!!Estimate" /
\* "<Geo>!!Margin of Error", with at least one row.
IsPairTable ==
    /\ HasLabelCol
    /\ tbl.rows /= <<>>
    /\ Len(tbl.cols) >= 3
    /\ \E n \in 1..Len(tbl.cols) :
        /\ Len(tbl.cols) = 1 + 2 * n
        /\ tbl.cols[1] = LabelCol
        /\ \A k \in 1..n :
            /\ EndsWith(tbl.cols[2 * k], "!!Estimate")
            /\ tbl.cols[2 * k + 1] =
                 SubSeq(tbl.cols[2 * k], 1, Len(tbl.cols[2 * k]) - Len("!!Estimate"))
                    \o "!!Margin of Error"

\* The text of a column name before its "!!Estimate" suffix
BeforeMarker(col) == SubSeq(col, 1, Len(col) - Len("!!Estimate"))

\* C6: a table of N column pairs yields exactly N records, one per Estimate
\* column in column order, each named by the text before "!!Estimate".
C6_OneRecordPerEstimateColumn ==
    (Extracted /\ IsPairTable) =>
        /\ ext.raised = "none"
        /\ Len(ext.records) = (Len(tbl.cols) - 1) \div 2
        /\ \A k \in 1..Len(ext.records) :
            ext.records[k].geo_name = BeforeMarker(tbl.cols[2 * k])

\* C10 as claimed: for every table with the label column the row selection
\* does not raise and reads the first Median row, else the first row.
C10_Original ==
    (Extracted /\ HasLabelCol) =>
        /\ ext.raised /= "IndexError"
        /\ ext.row = ExpectedRow

\* C10: for every table with the label column and at least one row, the row
\* selection does not raise, the chosen row is the first whose label holds
\* "Median" (any case), else the first row of the table, and the emitted
\* values are those of that row.
C10_FirstMedianRowElseFirstRow ==
    (Extracted /\ HasLabelCol /\ tbl.rows /= <<>>) =>
        /\ ext.raised /= "IndexError"
        /\ ext.row = ExpectedRow
        /\ ext.raised = "none" =>
            \A k \in 1..Len(ext.records) :
                ext.records[k].value =
                    ExpectedValue(tbl.rows[ExpectedRow][ExpectedEstimateCols[k]])

\* C10 witness: two rows, neither labelled Median, and the extraction read
\* the first one.
C10_Witness ==
    /\ Extracted /\ HasLabelCol
    /\ Len(tbl.rows) = 2
    /\ \A i \in 1..2 : ~IsMedianLabel(tbl.rows[i][ColIndex(tbl.cols, LabelCol)])
    /\ ext.raised = "none"
    /\ ext.row = 1
    /\ Len(ext.records) = 2

----------------------------------------------------------------------------
(* Properties of load_acs_affordability (Spec). *)

\* a/b as a claim states it: absent when either is absent, else the fraction
IsQuotient(q, a, b) ==
    IF a.isna THEN q.kind = "nan"
    ELSE q.kind = "num" /\ q.n * b.v = a.v * q.d

\* C1: price_to_income = home value / income and rent_to_income = rent * 12 /
\* income when the income is present and non-zero; both ratios are absent
\* whenever the income is absent or zero.
C1_RatiosAbsentWithoutIncome ==
    acs_pc = "done" =>
        \A k \in 1..Len(acs_result) :
            LET r == acs_result[k]
                inc == r.median_household_income
            IN IF inc.isna \/ inc.v = 0
               THEN r.price_to_income.kind = "nan" /\ r.rent_to_income.kind = "nan"
               ELSE /\ IsQuotient(r.price_to_income, r.median_home_value, inc)
                    /\ IsQuotient(r.rent_to_income,
                                  IF r.median_gross_rent.isna THEN NaN
                                  ELSE Num(r.median_gross_rent.v * 12), inc)

\* The iteration that ran last finished: its three tables were extracted and
\* its merged frame is the last of acs_frames.
YearJoined == acs_last.rent.raised = "none"
LastFrame == acs_frames[Len(acs_frames)]
GeosOf(x) == {x.records[k].geo_name : k \in 1..Len(x.records)}
ValueOf(x, g) == (CHOOSE k \in 1..Len(x.records) : x.records[k].geo_name = g)

\* C4: a (year, geography) pair is in a year's joined records only if all
\* three extractions of that year emitted the geography, and every geography
\* emitted by all three is there, absent values included.
C4_JoinKeepsGeosOfAllThree ==
    YearJoined =>
        LET all3 == GeosOf(acs_last.income) \cap GeosOf(acs_last.home_value)
                        \cap GeosOf(acs_last.rent)
        IN /\ \A k \in 1..Len(LastFrame) :
                /\ LastFrame[k].geo_name \in all3
                /\ LastFrame[k].year = acs_years[Len(acs_frames)]
           /\ \A g \in all3 : \E k \in 1..Len(LastFrame) :
                /\ LastFrame[k].geo_name = g
                /\ LastFrame[k].B19013 =
                     acs_last.income.records[ValueOf(acs_last.income, g)].value
                /\ LastFrame[k].B25077 =
                     acs_last.home_value.records[ValueOf(acs_last.home_value, g)].value
                /\ LastFrame[k].B25064 =
                     acs_last.rent.records[ValueOf(acs_last.rent, g)].value

\* C4 witness: a year whose income and home-value tables hold a geography the
\* rent table lacks, joined to one row, kept with an absent income.
C4_Witness ==
    /\ YearJoined
    /\ (GeosOf(acs_last.income) \cap GeosOf(acs_last.home_value))
            \ GeosOf(acs_last.rent) /= {}
    /\ Len(LastFrame) = 1
    /\ LastFrame[1].B19013.isna

\* C5: every returned row's geography is exactly one of the TARGET_GEOS
\* values.
C5_OnlyTargetGeos ==
    \A k \in 1..Len(acs_result) : acs_result[k].geo_name \in TARGET_GEOS

\* C5 witness: the call returned rows while a joined frame held a geography
\* outside the allow-list.
C5_Witness ==
    /\ acs_pc = "done"
    /\ acs_result /= <<>>
    /\ \E f \in 1..Len(acs_frames) : \E k \in 1..Len(acs_frames[f]) :
        acs_frames[f][k].geo_name \notin TARGET_GEOS

----------------------------------------------------------------------------
(* Properties of load_hud_fmr (SpecHudYear, SpecHud). *)

\* The last iteration read a workbook and chose (or failed to choose) columns
ColumnsSearched ==
    hud_last.out.outcome \in {"nogeo", "nofmr", "KeyError", "empty", "ok"}

IsGeoColName(c) == Contains(Lower(c), "name") \/ Contains(Lower(c), "area")
IsFmrColName(c) ==
    \/ Contains(Lower(c), "2br") \/ Contains(Lower(c), "2 br")
    \/ Contains(Lower(c), "fmr2") \/ Contains(Lower(c), "fmr_2")

FirstCol(cols, Test(_)) ==
    cols[CHOOSE i \in 1..Len(cols) :
            Test(cols[i]) /\ \A j \in 1..(i - 1) : ~Test(cols[j])]

\* C9: "areaname" and "fmr_2" are used when both exist; otherwise the first
\* column naming a geography and the first naming the 2-bedroom FMR; when
\* either search finds nothing the year is skipped without records.
C9_ColumnPriority ==
    ColumnsSearched =>
        LET cols == hud_last.wb.cols
            out == hud_last.out
            used == out.outcome \in {"KeyError", "empty", "ok"}
        IN IF HasCol(cols, "areaname") /\ HasCol(cols, "fmr_2")
           THEN used /\ out.geo_col = "areaname" /\ out.fmr_col = "fmr_2"
           ELSE IF (\A i \in 1..Len(cols) : ~IsGeoColName(cols[i]))
                    \/ (\A i \in 1..Len(cols) : ~IsFmrColName(cols[i]))
           THEN ~used /\ out.records = <<>> /\ hud_frames = <<>> /\ hud_pc /= "raised"
           ELSE /\ used
                /\ out.geo_col = FirstCol(cols, IsGeoColName)
                /\ out.fmr_col = FirstCol(cols, IsFmrColName)

\* C9 witness: no "areaname", so the search chose "Areaname" and "FMR2", the
\* first of two FMR candidates, and the year gave records.
C9_Witness ==
    /\ hud_last.out.outcome = "ok"
    /\ ~HasCol(hud_last.wb.cols, "areaname")
    /\ HasCol(hud_last.wb.cols, "fmr_2")
    /\ hud_last.out.geo_col = "Areaname"
    /\ hud_last.out.fmr_col = "FMR2"

\* The rows of the last workbook were expanded
RowsExpanded == hud_last.out.outcome \in {"empty", "ok"}

CountyName(r) == hud_last.wb.rows[r][ColIndex(hud_last.wb.cols, CountyCol)]
HasToken(r, token) ==
    CountyName(r).kind = "str" /\ Contains(Lower(CountyName(r).s), token)
FmrOf(r) == hud_last.wb.rows[r][ColIndex(hud_last.wb.cols, hud_last.out.fmr_col)]

\* The records a source row produced (each row's benchmark value is its own)
RecordsOfRow(r) ==
    SelectSeq(hud_last.out.records, LAMBDA rec : rec.hud_fmr_2br = FmrOf(r))
GeoSetOfRow(r) == {RecordsOfRow(r)[k].geo_name : k \in 1..Len(RecordsOfRow(r))}

OtterTailSet == {"Otter Tail County, Minnesota", "Fergus Falls city, Minnesota"}
HennepinSet == {"Hennepin County, Minnesota", "Minneapolis city, Minnesota"}

\* C7 as claimed: a row naming a mapped county produces exactly that
\* county's two records, a row naming none produces no record.
C7_Original ==
    RowsExpanded =>
        \A r \in 1..Len(hud_last.wb.rows) :
            /\ HasToken(r, "otter tail") =>
                (Len(RecordsOfRow(r)) = 2 /\ GeoSetOfRow(r) = OtterTailSet)
            /\ HasToken(r, "hennepin") =>
                (Len(RecordsOfRow(r)) = 2 /\ GeoSetOfRow(r) = HennepinSet)
            /\ (~HasToken(r, "otter tail") /\ ~HasToken(r, "hennepin")) =>
                RecordsOfRow(r) = <<>>

\* C7: a row produces, for each mapped token its county name contains, that
\* token's two records (county and principal city) once each, with the row's
\* benchmark value and the year, and nothing else: two records per token
\* contained, four for a name with both tokens, none for a name with neither.
C7_ExpansionPerToken ==
    RowsExpanded =>
        \A r \in 1..Len(hud_last.wb.rows) :
            LET want == (IF HasToken(r, "otter tail") THEN OtterTailSet ELSE {})
                          \cup (IF HasToken(r, "hennepin") THEN HennepinSet ELSE {})
            IN /\ GeoSetOfRow(r) = want
               /\ Len(RecordsOfRow(r)) = Cardinality(want)
               /\ \A k \in 1..Len(RecordsOfRow(r)) :
                    RecordsOfRow(r)[k].year = hud_last.year

\* C7 witness: a workbook with an Otter Tail row that gave its two records
\* and a Ramsey row that gave none.
C7_Witness ==
    /\ hud_last.out.outcome = "ok"
    /\ Len(hud_last.wb.rows) = 2
    /\ HasToken(1, "otter tail") /\ ~HasToken(1, "hennepin")
    /\ ~HasToken(2, "otter tail") /\ ~HasToken(2, "hennepin")
    /\ Len(RecordsOfRow(1)) = 2
    /\ Len(hud_last.out.records) = 2

\* C8: the returned table has at most one row per (year, geo_name).
C8_OneRowPerYearAndGeo ==
    hud_pc = "done" =>
        \A i, j \in 1..Len(hud_result) :
            (hud_result[i].year = hud_result[j].year
                /\ hud_result[i].geo_name = hud_result[j].geo_name) => i = j

\* C3: a year that fails does not make load_hud_fmr raise, contributes no
\* record, and leaves the other years' records in the result.
C3_YearFailureIsContained ==
    /\ hud_pc /= "raised"
    /\ hud_last.out.outcome \notin {"ok", "notrun"} =>
        \A f \in 1..Len(hud_frames) : \A k \in 1..Len(hud_frames[f]) :
            hud_frames[f][k].year /= hud_last.year
    /\ hud_pc = "done" => hud_result = Concat(hud_frames)

====
